---- MODULE Spec2Model ----
(***************************************************************************)
(* State machine of the DraggableList gallery component                    *)
(* (src/src/components/DraggableList.tsx): the ordered item collection,    *)
(* the active drag card, the FileReaders in flight and the handlers that   *)
(* change them.                                                            *)
(*                                                                         *)
(* JavaScript values are encoded as follows.  Strings are TLA+ strings.    *)
(* The primitives null and undefined are the strings JsNull and            *)
(* JsUndefined; a boolean is "true" or "false", so that an optional        *)
(* boolean field can also be JsUndefined.  An item is a record             *)
(* [id, url, alt, checked]; the values null and undefined, where an item   *)
(* is expected, are the records NullItem and UndefinedItem.                *)
(***************************************************************************)
EXTENDS Integers, Sequences, FiniteSets, TLC

VARIABLES
    items,       \* useState(images): the ordered item collection
    activeCard,  \* useState<IGallery | null>(): item, NullItem or UndefinedItem
    readers,     \* FileReader objects: slot -> file being read, or Idle
    now,         \* the value Date.now() returns
    thrown,      \* the error an updater or a render has thrown, or NoError
    last,        \* history: the last handler run and whether it called setItems
    batch        \* history: the last upload batch, while nothing else has run since

vars == <<items, activeCard, readers, now, thrown, last, batch>>

----------------------------------------------------------------------------
(* Bounds *)

MaxItems == 3    \* items in the collection plus reads in flight
MaxReaders == 2  \* FileReaders in flight
MaxClock == 2    \* distinct values of Date.now()
MaxFiles == 2    \* files of one upload batch

----------------------------------------------------------------------------
(* JavaScript values *)

JsNull == "null"
JsUndefined == "undefined"
JsTrue == "true"
JsFalse == "false"

NoError == "none"
TypeError == "TypeError"

UndefinedItem ==
    [id |-> JsUndefined, url |-> JsUndefined, alt |-> JsUndefined, checked |-> JsUndefined]

NullItem ==
    [id |-> JsNull, url |-> JsNull, alt |-> JsNull, checked |-> JsNull]

\* Boolean(v) for the values a checked field takes
Truthy(v) == v = JsTrue

\* A negation that always yields true
JsNotSet(v) == JsTrue

\* !v
JsNot(v) == IF Truthy(v) THEN JsFalse ELSE JsTrue

Min(a, b) == IF a < b THEN a ELSE b
Max(a, b) == IF a > b THEN a ELSE b

----------------------------------------------------------------------------
(* The provider's list and the ids in play *)

ProviderId(i) == "img-" \o ToString(i)

\* useGallery().images: n items with pairwise distinct ids and no checked field
images(n) ==
    [i \in 1..n |->
        [id |-> ProviderId(i), url |-> ProviderId(i) \o ".jpg",
         alt |-> "Image", checked |-> JsUndefined]]

\* Date.now() + ""
TimestampId(t) == ToString(t)

AllIds == {ProviderId(i) : i \in 1..MaxItems} \cup {TimestampId(t) : t \in 1..MaxClock}

\* The files an upload can carry; reading UnreadableFiles fails
Files == {"cat.png", "gone.png"}
UnreadableFiles == {"gone.png"}

Idle == "idle"
Slots == 1..MaxReaders

----------------------------------------------------------------------------
(* Array helpers, on 0-based JavaScript indices *)

\* Array.prototype.findIndex with the predicate item.id === id
FindIndex(its, id) ==
    IF \E i \in 1..Len(its) : its[i].id = id
    THEN (CHOOSE i \in 1..Len(its) :
              /\ its[i].id = id
              /\ \A j \in 1..(i - 1) : its[j].id # id) - 1
    ELSE -1

\* The start index Array.prototype.splice uses for a relative start
SpliceStart(len, start) ==
    IF start < 0 THEN Max(len + start, 0) ELSE Min(start, len)

\* array.splice(start, 1): the array after the removal
SpliceRemove(arr, start) ==
    LET s == SpliceStart(Len(arr), start)
    IN  IF s < Len(arr)
        THEN SubSeq(arr, 1, s) \o SubSeq(arr, s + 2, Len(arr))
        ELSE arr

\* array.splice(start, 1)[0]: the removed element, undefined when none
SpliceRemoved(arr, start) ==
    LET s == SpliceStart(Len(arr), start)
    IN  IF s < Len(arr) THEN arr[s + 1] ELSE UndefinedItem

\* array.splice(start, 0, x): the array after the insertion
SpliceInsert(arr, start, x) ==
    LET s == SpliceStart(Len(arr), start)
    IN  SubSeq(arr, 1, s) \o <<x>> \o SubSeq(arr, s + 1, Len(arr))

\* arrayMove that exchanges the two positions instead of moving one element
arrayMoveSwap(array, from, to) ==
    IF from >= 0 /\ to >= 0 /\ from < Len(array) /\ to < Len(array)
    THEN [array EXCEPT ![from + 1] = array[to + 1], ![to + 1] = array[from + 1]]
    ELSE array

\* arrayMove of @dnd-kit/sortable:
\*   newArray.splice(to < 0 ? newArray.length + to : to, 0, newArray.splice(from, 1)[0])
\* The insertion index is evaluated before the removal.
arrayMove(array, from, to) ==
    LET at == IF to < 0 THEN Len(array) + to ELSE to
    IN  SpliceInsert(SpliceRemove(array, from), at, SpliceRemoved(array, from))

----------------------------------------------------------------------------
(* Derived values of a render *)

\* items.map((item) => item.id) throws on an undefined entry
RenderThrows(its) == \E i \in 1..Len(its) : its[i] = UndefinedItem

IsChecked(item) == Truthy(item.checked)

\* items.filter((item) => item.checked).length
selectedItems(its) == Len(SelectSeq(its, IsChecked))

\* A title that always takes the plural
cardTitlePlural(its) ==
    IF selectedItems(its) > 0
    THEN ToString(selectedItems(its)) \o " Files Selected"
    ELSE "Gallery"

cardTitle(its) ==
    IF selectedItems(its) > 0
    THEN ToString(selectedItems(its)) \o " File"
            \o (IF selectedItems(its) > 1 THEN "s" ELSE "") \o " Selected"
    ELSE "Gallery"

\* {selectedItems > 0 && <button ...>}
deleteButton(its) == selectedItems(its) > 0

----------------------------------------------------------------------------
(* History records *)

\* The last handler: its name, whether it called setItems and, for
\* itemClickHandler, the id clicked and the collection before the click
Last(op, set) == [op |-> op, setItems |-> set, id |-> "", before |-> <<>>]

\* No upload batch is followed: none was started, or another handler ran since
NoBatch == [base |-> <<>>, slots |-> {}, m |-> 0, valid |-> FALSE]

\* The component is mounted: nothing has thrown
Mounted == thrown = NoError

----------------------------------------------------------------------------
\* An initial state whose active card is null, as from useState(null)
InitNull ==
    /\ \E k \in 0..MaxItems : items = images(MaxItems - k)
    /\ activeCard = NullItem
    /\ readers = [s \in Slots |-> Idle]
    /\ now = 1
    /\ thrown = NoError
    /\ last = Last("init", FALSE)
    /\ batch = NoBatch

Init ==
    /\ \E k \in 0..MaxItems : items = images(MaxItems - k)
    /\ activeCard = UndefinedItem
    /\ readers = [s \in Slots |-> Idle]
    /\ now = 1
    /\ thrown = NoError
    /\ last = Last("init", FALSE)
    /\ batch = NoBatch

\* A lookup in the list the component was mounted with (a callback that
\* closed over the first render's items)
FindItemStale(its, id) ==
    IF FindIndex(images(MaxItems), id) >= 0
    THEN images(MaxItems)[FindIndex(images(MaxItems), id) + 1]
    ELSE NullItem

\* items.find((image) => image.id === id) || null
FindItem(its, id) ==
    IF FindIndex(its, id) >= 0 THEN its[FindIndex(its, id) + 1] ELSE NullItem

handleDragStart(id) ==
    /\ Mounted
    /\ activeCard' = FindItem(items, id)
    /\ last' = Last("handleDragStart", FALSE)
    /\ batch' = NoBatch
    /\ UNCHANGED <<items, readers, now, thrown>>

\* The updater of handleDragEnd, for a non-null over
MoveItems(its, activeId, overId) ==
    arrayMove(its, FindIndex(its, activeId), FindIndex(its, overId))

\* handleDragEnd without the active.id !== over?.id test
handleDragEndUnguarded(active, over) ==
    /\ Mounted
    /\ IF over = JsNull /\ Len(items) > 0
       THEN /\ thrown' = TypeError
            /\ UNCHANGED items
       ELSE /\ items' = MoveItems(items, active, over)
            /\ thrown' = IF RenderThrows(items') THEN TypeError ELSE NoError
    /\ activeCard' = NullItem
    /\ last' = Last("handleDragEnd", TRUE)
    /\ batch' = NoBatch
    /\ UNCHANGED <<readers, now>>

\* handleDragEnd that clears the active card only when it reorders
handleDragEndKeepsCard(active, over) ==
    /\ Mounted
    /\ IF active # over
       THEN /\ IF over = JsNull /\ Len(items) > 0
               THEN /\ thrown' = TypeError
                    /\ UNCHANGED items
               ELSE /\ items' = MoveItems(items, active, over)
                    /\ thrown' = IF RenderThrows(items') THEN TypeError ELSE NoError
            /\ activeCard' = NullItem
       ELSE UNCHANGED <<items, thrown, activeCard>>
    /\ last' = Last("handleDragEnd", active # over)
    /\ batch' = NoBatch
    /\ UNCHANGED <<readers, now>>

\* over is an id, or JsNull when the drop has no target.  over?.id is then
\* undefined, which differs from every id, and the updater reaches over!.id
\* in the findIndex callback as soon as the collection has an item.
handleDragEnd(active, over) ==
    /\ Mounted
    /\ IF active # over
       THEN IF over = JsNull /\ Len(items) > 0
            THEN /\ thrown' = TypeError
                 /\ UNCHANGED items
            ELSE /\ items' = MoveItems(items, active, over)
                 /\ thrown' = IF RenderThrows(items') THEN TypeError ELSE NoError
       ELSE UNCHANGED <<items, thrown>>
    /\ activeCard' = NullItem
    /\ last' = Last("handleDragEnd", active # over)
    /\ batch' = NoBatch
    /\ UNCHANGED <<readers, now>>

\* handleDragCancel that clears the active card to null
handleDragCancelNull ==
    /\ Mounted
    /\ activeCard' = NullItem
    /\ last' = Last("handleDragCancel", FALSE)
    /\ batch' = NoBatch
    /\ UNCHANGED <<items, readers, now, thrown>>

handleDragCancel ==
    /\ Mounted
    /\ activeCard' = UndefinedItem
    /\ last' = Last("handleDragCancel", FALSE)
    /\ batch' = NoBatch
    /\ UNCHANGED <<items, readers, now, thrown>>

\* The free FileReader slots, lowest first, that a batch of k files takes
FreeSlots == {s \in Slots : readers[s] = Idle}

RECURSIVE TakeSlots(_, _)
TakeSlots(free, k) ==
    IF k = 0 THEN <<>>
    ELSE LET s == CHOOSE x \in free : \A y \in free : x <= y
         IN  <<s>> \o TakeSlots(free \ {s}, k - 1)

\* uploadImage with a non-empty FileList: one FileReader per file, each
\* started with readAsDataURL.  (A null or empty FileList changes nothing.)
uploadImage(files) ==
    /\ Mounted
    /\ Len(files) <= Cardinality(FreeSlots)
    /\ Len(items) + (MaxReaders - Cardinality(FreeSlots)) + Len(files) <= MaxItems
    /\ LET taken == TakeSlots(FreeSlots, Len(files))
       IN  /\ readers' = [s \in Slots |->
                            IF \E k \in 1..Len(files) : taken[k] = s
                            THEN files[CHOOSE k \in 1..Len(files) : taken[k] = s]
                            ELSE readers[s]]
           /\ batch' = IF FreeSlots = Slots
                        THEN [base |-> items,
                              slots |-> {taken[k] : k \in 1..Len(files)},
                              m |-> Len(files),
                              valid |-> \A k \in 1..Len(files) :
                                           files[k] \notin UnreadableFiles]
                        ELSE NoBatch
    /\ last' = Last("uploadImage", FALSE)
    /\ UNCHANGED <<items, activeCard, now, thrown>>

\* reader.result when loadend fires: the data URL, or null after a failed read
ReaderResult(file) ==
    IF file \in UnreadableFiles THEN JsNull ELSE "data:" \o file

\* An item that takes the file's name as its alt text
NewImageNamed(file, t) ==
    [id |-> TimestampId(t), url |-> ReaderResult(file), alt |-> file,
     checked |-> JsUndefined]

\* The item reader.onloadend builds
NewImage(file, t) ==
    [id |-> TimestampId(t), url |-> ReaderResult(file), alt |-> "New Image",
     checked |-> JsUndefined]

\* reader.onloadend of the reader in slot s: loadend fires after a successful
\* and after a failed read alike.  A state update of an unmounted component
\* is dropped.
onloadend(s) ==
    /\ readers[s] # Idle
    /\ items' = IF Mounted THEN Append(items, NewImage(readers[s], now)) ELSE items
    /\ readers' = [readers EXCEPT ![s] = Idle]
    /\ last' = Last("onloadend", TRUE)
    /\ batch' = IF s \in batch.slots THEN batch ELSE NoBatch
    /\ UNCHANGED <<activeCard, now, thrown>>

\* An updater that selects the clicked item and unselects all others
ToggleItemsExclusive(its, id) ==
    [i \in 1..Len(its) |->
        IF its[i].id = id
        THEN [its[i] EXCEPT !.checked = JsNot(its[i].checked)]
        ELSE [its[i] EXCEPT !.checked = JsFalse]]

\* The updater of itemClickHandler
ToggleItems(its, id) ==
    [i \in 1..Len(its) |->
        IF its[i].id = id
        THEN [its[i] EXCEPT !.checked = JsNot(its[i].checked)]
        ELSE its[i]]

itemClickHandler(id) ==
    /\ Mounted
    /\ items' = ToggleItems(items, id)
    /\ last' = [op |-> "itemClickHandler", setItems |-> TRUE, id |-> id, before |-> items]
    /\ batch' = NoBatch
    /\ UNCHANGED <<activeCard, readers, now, thrown>>

Unchecked(item) == ~Truthy(item.checked)

\* A filter that keeps the checked items
FilterItemsInverted(its) == SelectSeq(its, IsChecked)

\* The updater of deleteSelectedFiles
FilterItems(its) == SelectSeq(its, Unchecked)

deleteSelectedFiles ==
    /\ Mounted
    /\ items' = FilterItems(items)
    /\ last' = Last("deleteSelectedFiles", TRUE)
    /\ batch' = NoBatch
    /\ UNCHANGED <<activeCard, readers, now, thrown>>

\* Time passes: Date.now() never decreases
Tick ==
    /\ now < MaxClock
    /\ now' = now + 1
    /\ UNCHANGED <<items, activeCard, readers, thrown, last, batch>>

FileLists == UNION {[1..k -> Files] : k \in 1..MaxFiles}

\* The handlers that write the item collection (none of them reads activeCard)
NextItems ==
    \/ \E active \in AllIds, over \in AllIds \cup {JsNull} : handleDragEnd(active, over)
    \/ \E files \in FileLists : uploadImage(files)
    \/ \E s \in Slots : onloadend(s)
    \/ \E id \in AllIds : itemClickHandler(id)
    \/ deleteSelectedFiles
    \/ Tick

Next ==
    \/ NextItems
    \/ \E id \in AllIds : handleDragStart(id)
    \/ handleDragCancel

\* The whole component
Spec == Init /\ [][Next]_vars

\* The item collection under its handlers, without the drag preview
ItemsSpec == Init /\ [][NextItems]_vars

\* The drag handlers with selection and deletion, on the provider's items
NextDrag ==
    \/ \E id \in AllIds : handleDragStart(id)
    \/ \E active \in AllIds, over \in AllIds \cup {JsNull} : handleDragEnd(active, over)
    \/ handleDragCancel
    \/ \E id \in AllIds : itemClickHandler(id)
    \/ deleteSelectedFiles

DragSpec == Init /\ [][NextDrag]_vars

\* Every started read settles: loadend fires for each FileReader
FairItemsSpec == ItemsSpec /\ \A s \in Slots : WF_vars(onloadend(s))

----------------------------------------------------------------------------
(* Vocabulary of the properties *)

DistinctIds(its) ==
    \A i, j \in 1..Len(its) : i # j => its[i].id # its[j].id

HasId(its, id) == \E i \in 1..Len(its) : its[i].id = id

\* The collection without the items of this id
RECURSIVE Without(_, _)
Without(its, id) ==
    IF its = <<>> THEN <<>>
    ELSE IF Head(its).id = id THEN Without(Tail(its), id)
         ELSE <<Head(its)>> \o Without(Tail(its), id)

Elements(its) == {its[i] : i \in 1..Len(its)}

\* keep is a subset of the positions of before; after lists exactly those, in order
IsSubsequenceAt(after, before, keep) ==
    /\ Len(after) = Cardinality(keep)
    /\ \A k \in keep :
          after[Cardinality({j \in keep : j <= k})] = before[k]

----------------------------------------------------------------------------
(* C1 *)

\* C1: a drop of an item on another item of a collection with pairwise distinct
\* ids yields a permutation in which the dragged item sits at the index the
\* target had, and the other items keep their relative order.
MoveCorrectness ==
    [][( /\ last'.op = "handleDragEnd"
         /\ Len(items) >= 2 /\ DistinctIds(items) )
       => \A i, j \in 1..Len(items) :
             (i # j /\ handleDragEnd(items[i].id, items[j].id))
             => /\ Len(items') = Len(items)
                /\ Elements(items') = Elements(items)
                /\ DistinctIds(items')
                /\ items'[j] = items[i]
                /\ Without(items', items[i].id) = Without(items, items[i].id)
                /\ thrown' = NoError]_vars

\* The first of three items has been dropped on the last one: a move, which a
\* swap would not produce
MoveWitness ==
    /\ last.op = "handleDragEnd" /\ last.setItems
    /\ thrown = NoError
    /\ items = <<images(3)[2], images(3)[3], images(3)[1]>>

----------------------------------------------------------------------------
(* C2 *)

\* C2: a drop without a target (over is null) leaves the collection unchanged,
\* computes no reordering and raises no error.
MissingTargetNoOp ==
    [][\A d \in AllIds :
          (last'.op = "handleDragEnd" /\ handleDragEnd(d, JsNull))
          => /\ items' = items
             /\ ~last'.setItems
             /\ thrown' = NoError]_vars

----------------------------------------------------------------------------
(* C3 *)

\* C3: a drop of an item on itself leaves the collection identical: same items,
\* same order, and the collection value is not replaced (setItems is not called).
SelfDropNoOp ==
    [][\A id \in AllIds :
          (last'.op = "handleDragEnd" /\ handleDragEnd(id, id))
          => /\ items' = items
             /\ ~last'.setItems
             /\ thrown' = thrown]_vars

\* A self-drop has happened on a collection of several items, one of them
\* uploaded
SelfDropWitness ==
    /\ last.op = "handleDragEnd" /\ ~last.setItems
    /\ thrown = NoError
    /\ Len(items) >= 2
    /\ \E i \in 1..Len(items) : items[i].alt = "New Image"

----------------------------------------------------------------------------
(* C4 *)

\* C4: deleteSelectedFiles leaves exactly the items that were not checked, in
\* their prior relative order.
DeleteRemovesChecked ==
    [][deleteSelectedFiles
          => IsSubsequenceAt(items', items,
                 {i \in 1..Len(items) : items[i].checked # JsTrue})]_vars

\* [A(checked), B, C(checked)] has become [B]; B was selected and unselected before
DeleteWitness ==
    /\ last.op = "deleteSelectedFiles"
    /\ items = <<[images(3)[2] EXCEPT !.checked = JsFalse]>>

----------------------------------------------------------------------------
(* C5 *)

\* C5: in every reachable state no two items of the collection have the same id.
IdUniqueness == DistinctIds(items)

----------------------------------------------------------------------------
(* C6 *)

\* The followed batch has no read left in flight
BatchSettled ==
    /\ batch.m > 0
    /\ \A s \in batch.slots : readers[s] = Idle

\* C6: every started read settles, and once all M reads of a batch of valid
\* files have settled with no other handler run since the upload, the collection
\* is the N prior items followed by M items with alt "New Image" and no checked
\* flag.
UploadAppends ==
    /\ [](( BatchSettled /\ batch.valid )
          => /\ Len(items) = Len(batch.base) + batch.m
             /\ SubSeq(items, 1, Len(batch.base)) = batch.base
             /\ \A k \in (Len(batch.base) + 1)..Len(items) :
                   /\ items[k].alt = "New Image"
                   /\ items[k].checked = JsUndefined)
    /\ \A s \in Slots : (readers[s] # Idle) ~> (readers[s] = Idle)

\* A batch of two valid files has settled on a collection of one item
UploadWitness ==
    /\ last.op = "onloadend"
    /\ BatchSettled /\ batch.valid
    /\ batch.m = 2 /\ Len(batch.base) = 1
    /\ Len(items) = 3

----------------------------------------------------------------------------
(* C7 *)

\* C7: the loadend of a failed read appends no item.
DecodeFailureDropped ==
    [][\A s \in Slots :
          ( /\ last'.op = "onloadend"
            /\ readers[s] \in UnreadableFiles
            /\ onloadend(s) )
          => items' = items]_vars

----------------------------------------------------------------------------
(* C8 *)

\* The step is the second of two itemClickHandler calls in a row with one id
SecondClick == last.op = "itemClickHandler" /\ itemClickHandler(last.id)

\* C8 as stated: two clicks in a row on one id leave the collection equal to the
\* collection before the two clicks.
ToggleInvolutive ==
    [][SecondClick => items' = last.before]_vars

\* C8 as amended: two clicks in a row on one id restore the selection of every
\* item and everything but the checked field; an item whose checked field was a
\* boolean is restored exactly, one without a checked field ends with false.
ToggleInvolutiveAsBoolean ==
    [][SecondClick
          => /\ Len(items') = Len(last.before)
             /\ \A i \in 1..Len(last.before) :
                   /\ [items'[i] EXCEPT !.checked = ""]
                        = [last.before[i] EXCEPT !.checked = ""]
                   /\ Truthy(items'[i].checked) = Truthy(last.before[i].checked)
                   /\ last.before[i].checked # JsUndefined
                        => items'[i] = last.before[i]
                   /\ last.before[i].id # last.id
                        => items'[i] = last.before[i]
                   /\ ( last.before[i].id = last.id
                        /\ last.before[i].checked = JsUndefined )
                        => items'[i].checked = JsFalse]_vars

\* An item without checked field has been clicked twice in a row
ToggleTwiceWitness ==
    /\ last.op = "itemClickHandler"
    /\ \E i \in 1..Len(items) :
          /\ items[i].id = last.id
          /\ items[i].checked = JsFalse
          /\ last.before[i].checked = JsTrue
    /\ \E j \in 1..Len(items) :
          items[j].id # last.id /\ items[j].checked = JsUndefined

----------------------------------------------------------------------------
(* C9 *)

\* C9: itemClickHandler flips the checked flag of the items with the clicked id
\* and changes nothing else; with no such item the collection is unchanged.
ToggleFrame ==
    [][(last'.op = "itemClickHandler" /\ itemClickHandler(last'.id))
          => /\ Len(items') = Len(items)
             /\ \A i \in 1..Len(items) :
                   IF items[i].id = last'.id
                   THEN /\ items'[i].id = items[i].id
                        /\ items'[i].url = items[i].url
                        /\ items'[i].alt = items[i].alt
                        /\ items'[i].checked =
                              (IF items[i].checked = JsTrue THEN JsFalse ELSE JsTrue)
                   ELSE items'[i] = items[i]
             /\ ~HasId(items, last'.id) => items' = items
             /\ thrown' = thrown]_vars

\* One item of several has been selected by a click, another is untouched
ToggleWitness ==
    /\ last.op = "itemClickHandler"
    /\ Len(items) >= 2
    /\ \E i, j \in 1..Len(items) :
          /\ items[i].id = last.id /\ items[i].checked = JsTrue
          /\ items[j].id # last.id /\ items[j].checked = JsUndefined

----------------------------------------------------------------------------
(* C10 *)

CheckedCount == Cardinality({i \in 1..Len(items) : items[i].checked = JsTrue})

\* C10: selectedItems is the number of checked items; the title is "Gallery" for
\* none, "1 File Selected" for one and "<n> Files Selected" for n >= 2; the delete
\* button is offered exactly when an item is checked.
HeaderText ==
    Mounted
    => /\ selectedItems(items) = CheckedCount
       /\ CheckedCount = 0 => cardTitle(items) = "Gallery"
       /\ CheckedCount = 1 => cardTitle(items) = "1 File Selected"
       /\ CheckedCount >= 2
            => cardTitle(items) = ToString(CheckedCount) \o " Files Selected"
       /\ deleteButton(items) <=> CheckedCount > 0

\* Exactly one item of several is selected
HeaderWitness ==
    /\ Mounted
    /\ last.op = "itemClickHandler"
    /\ CheckedCount = 1
    /\ Len(items) >= 2

----------------------------------------------------------------------------
(* C11 *)

\* C11: after every handleDragEnd, whatever its ids, the active card is null.
EndDragClearsActive ==
    [][\A d \in AllIds, t \in AllIds \cup {JsNull} :
          (last'.op = "handleDragEnd" /\ handleDragEnd(d, t))
          => activeCard' = NullItem]_vars

\* A self-drop, which reorders nothing, has cleared the active card
EndDragClearsWitness ==
    /\ last.op = "handleDragEnd" /\ ~last.setItems
    /\ activeCard = NullItem
    /\ Len(items) >= 2

----------------------------------------------------------------------------
(* C12 *)

\* C12: handleDragStart sets the active card to the item of the current
\* collection with the given id, to null when there is none, and leaves the
\* collection unchanged.
BeginDragSetsActive ==
    [][\A id \in AllIds :
          (last'.op = "handleDragStart" /\ handleDragStart(id))
          => /\ items' = items
             /\ thrown' = thrown
             /\ IF HasId(items, id)
                THEN activeCard' \in Elements(items) /\ activeCard'.id = id
                ELSE activeCard' = NullItem]_vars

\* The active card is an item as a click left it, not as it was mounted
BeginDragWitness ==
    /\ last.op = "handleDragStart"
    /\ activeCard \in Elements(items)
    /\ activeCard.checked = JsTrue

----------------------------------------------------------------------------
(* C13 *)

\* C13: handleDragCancel sets the active card to undefined, a value distinct
\* from null, and leaves the collection unchanged without calling setItems.
CancelDragMarks ==
    [][(last'.op = "handleDragCancel" /\ handleDragCancel)
          => /\ activeCard' = UndefinedItem
             /\ activeCard' # NullItem
             /\ items' = items
             /\ ~last'.setItems
             /\ thrown' = thrown]_vars

\* A drag has been cancelled on a collection that was reordered before
CancelDragWitness ==
    /\ last.op = "handleDragCancel"
    /\ activeCard = UndefinedItem
    /\ Len(items) = 3
    /\ items # images(3)

----------------------------------------------------------------------------
(* C14 *)

\* C14: a handleDragEnd with two different ids, one of which matches no item,
\* leaves the collection unchanged and throws nothing.
LookupMissNoOp ==
    [][\A d \in AllIds, t \in AllIds :
          ( /\ last'.op = "handleDragEnd"
            /\ d # t
            /\ ~HasId(items, d) \/ ~HasId(items, t)
            /\ handleDragEnd(d, t) )
          => items' = items /\ thrown' = NoError]_vars

----------------------------------------------------------------------------
(* C15 *)

\* C15: every loadend, whatever ran before it, appends exactly one new item at
\* the end of the collection as it is then and leaves the items before it
\* unchanged.
NoLostUpdates ==
    [][\A s \in Slots :
          (last'.op = "onloadend" /\ onloadend(s))
          => /\ Len(items') = Len(items) + 1
             /\ SubSeq(items', 1, Len(items)) = items
             /\ items'[Len(items')].alt = "New Image"]_vars

\* The same, for the loadends that find the component mounted
AppendsWhileMounted ==
    [][\A s \in Slots :
          (last'.op = "onloadend" /\ Mounted /\ onloadend(s))
          => /\ Len(items') = Len(items) + 1
             /\ SubSeq(items', 1, Len(items)) = items
             /\ items'[Len(items')].alt = "New Image"]_vars

----------------------------------------------------------------------------
(* C16 *)

\* The active card holds an item
HoldsItem(card) == card # NullItem /\ card # UndefinedItem

\* C16 as stated: the active card after handleDragCancel differs from the
\* initial, never-dragged value.
CancelledDiffersFromUnset ==
    last.op = "handleDragCancel" => activeCard # UndefinedItem

\* C16 as amended: the active card is undefined initially and again after
\* handleDragCancel, null after handleDragEnd, and an item or null after
\* handleDragStart; undefined, null and an item are three different values.
ActiveCardStates ==
    /\ last.op = "init" => activeCard = UndefinedItem
    /\ last.op = "handleDragCancel" => activeCard = UndefinedItem
    /\ last.op = "handleDragEnd" => activeCard = NullItem
    /\ last.op = "handleDragStart"
         => \/ activeCard = NullItem
            \/ HoldsItem(activeCard) /\ activeCard.id \in AllIds
    /\ UndefinedItem # NullItem

\* A drag was started and then cancelled: the active card is undefined again
CancelledWitness ==
    /\ last.op = "handleDragCancel"
    /\ activeCard = UndefinedItem
    /\ items = images(MaxItems)

----------------------------------------------------------------------------
(* C17 *)

\* C17: the active card comes to hold an item only by handleDragStart; in the
\* initial state and after every handleDragEnd and handleDragCancel it holds
\* none and a handleDragStart is accepted.
DragLifecycle ==
    /\ [](last.op \in {"init", "handleDragEnd", "handleDragCancel"}
            => /\ ~HoldsItem(activeCard)
               /\ ENABLED (\E id \in AllIds : handleDragStart(id)))
    /\ [][(HoldsItem(activeCard') /\ activeCard' # activeCard)
            => last'.op = "handleDragStart"]_vars

\* The same, for the states in which the component is mounted
DragLifecycleWhileMounted ==
    /\ [](( Mounted /\ last.op \in {"init", "handleDragEnd", "handleDragCancel"} )
            => /\ ~HoldsItem(activeCard)
               /\ ENABLED (\E id \in AllIds : handleDragStart(id)))
    /\ [][(HoldsItem(activeCard') /\ activeCard' # activeCard)
            => last'.op = "handleDragStart"]_vars

----------------------------------------------------------------------------
(* C18 *)

\* The number of entries of the collection equal to x
Count(its, x) == Cardinality({i \in 1..Len(its) : its[i] = x})

\* after is a permutation of before
IsPermutation(after, before) ==
    /\ Len(after) = Len(before)
    /\ \A x \in Elements(after) \cup Elements(before) :
          Count(after, x) = Count(before, x)

\* C18: for every collection and every pair of ids, the collection after
\* handleDragEnd is a permutation of the collection before it.
EndDragConserves ==
    [][\A d \in AllIds, t \in AllIds :
          (last'.op = "handleDragEnd" /\ handleDragEnd(d, t))
          => IsPermutation(items', items)]_vars

----------------------------------------------------------------------------
(* C19 *)

\* C19: whenever the active card holds an item, the collection has an item
\* with its id, url and alt.
PreviewNeverStale ==
    HoldsItem(activeCard)
    => \E i \in 1..Len(items) :
          /\ items[i].id = activeCard.id
          /\ items[i].url = activeCard.url
          /\ items[i].alt = activeCard.alt

----------------------------------------------------------------------------
(* C20 *)

\* The number of checked items of a collection
Selected(its) == Cardinality({i \in 1..Len(its) : its[i].checked = JsTrue})

\* C20: a click on an item of the collection changes the number of selected
\* items by exactly one and flips the checked flag of exactly one position.
OneClickOneCard ==
    [][( /\ last'.op = "itemClickHandler"
         /\ HasId(items, last'.id)
         /\ itemClickHandler(last'.id) )
       => /\ Len(items') = Len(items)
          /\ Cardinality({i \in 1..Len(items) : items'[i] # items[i]}) = 1
          /\ \/ Selected(items') = Selected(items) + 1
             \/ Selected(items') = Selected(items) - 1]_vars

====
